---- MODULE Spec2Model ----
(***************************************************************************)
(* souvenir: typed 64-bit identifiers, "<prefix>_<base32 payload>".        *)
(*                                                                         *)
(* Model of src/id.rs (Id<T>: new, to_bytes, to_u64, to_i64, test, parse,  *)
(* Display, From<u64>, From<i64>, From<IdBytes>, derived Eq/Ord) together  *)
(* with the base32 codec of crate::encoding that id.rs calls.              *)
(*                                                                         *)
(* Representation.                                                         *)
(*   - A str/String is a sequence of one-character strings.                *)
(*   - IdBytes is a sequence of 8 bytes (0..255).                          *)
(*   - A u64 is written in radix 2^16, most significant limb first:        *)
(*     <<l1,l2,l3,l4>> stands for l1*2^48 + l2*2^32 + l3*2^16 + l4 with    *)
(*     every limb in 0..65535.  An i64 is written the same way except that *)
(*     the first limb is signed, in -32768..32767 (two's complement: the   *)
(*     sign lives in the top limb).  The model checker's integers are 32   *)
(*     bits wide, so a 64-bit value cannot be one integer.                 *)
(*   - A Result is a record with a field kind ("Ok" or the error's name).  *)
(***************************************************************************)
EXTENDS Integers, Sequences, FiniteSets, TLC

\* ------------------------------------------------------------------------
\* Sizes

\* pub type IdBytes = [u8; 8]
IdLen == 8

\* length of a token: 1 symbol of 4 bits followed by 12 symbols of 5 bits
TokenLen == 13

\* longest payload segment the input generator builds
MaxTokenLen == 14

\* ------------------------------------------------------------------------
\* Strings

SEP == "_"

Str_user == <<"u", "s", "e", "r">>
Str_order == <<"o", "r", "d", "e", "r">>
Str_my == <<"m", "y">>
Str_type == <<"t", "y", "p", "e">>
Str_my_type == Str_my \o <<SEP>> \o Str_type

\* str::split_once('_'): the parts before and after the first '_', or None
split_once(value) ==
    IF \E i \in 1..Len(value) : value[i] = SEP
    THEN LET i == CHOOSE k \in 1..Len(value) :
                     /\ value[k] = SEP
                     /\ \A j \in 1..(k - 1) : value[j] # SEP
         IN [kind |-> "Some",
             prefix |-> SubSeq(value, 1, i - 1),
             value |-> SubSeq(value, i + 1, Len(value))]
    ELSE [kind |-> "None"]

\* ------------------------------------------------------------------------
\* crate::encoding (base32 codec)

\* the fixed lowercase alphabet: digits and letters without i, l, o, u
ALPHABET ==
    <<"0", "1", "2", "3", "4", "5", "6", "7", "8", "9",
      "a", "b", "c", "d", "e", "f", "g", "h", "j", "k",
      "m", "n", "p", "q", "r", "s", "t", "v", "w", "x", "y", "z">>

InAlphabet(c) == \E i \in 1..Len(ALPHABET) : ALPHABET[i] = c

\* value 0..31 of a symbol of the alphabet
SymbolValue(c) == (CHOOSE i \in 1..Len(ALPHABET) : ALPHABET[i] = c) - 1

\* bit k (1 = most significant) of the 64-bit big-endian value of 8 bytes
BitOf(bytes, k) == (bytes[((k - 1) \div 8) + 1] \div (2 ^ (7 - ((k - 1) % 8)))) % 2

\* bit j (1..65) of the value padded with one leading zero bit to 13 * 5 bits
PaddedBit(bytes, j) == IF j = 1 THEN 0 ELSE BitOf(bytes, j - 1)

\* value of the i-th 5-bit group of the padded value
GroupValue(bytes, i) ==
      16 * PaddedBit(bytes, 5 * (i - 1) + 1)
    +  8 * PaddedBit(bytes, 5 * (i - 1) + 2)
    +  4 * PaddedBit(bytes, 5 * (i - 1) + 3)
    +  2 * PaddedBit(bytes, 5 * (i - 1) + 4)
    +      PaddedBit(bytes, 5 * (i - 1) + 5)

\* stringify_base32(bytes: [u8; 8]) -> Result<String, _>
stringify_base32(bytes) ==
    IF Len(bytes) # IdLen
    THEN [kind |-> "EncodeError"]
    ELSE [kind |-> "Ok",
          value |-> [i \in 1..TokenLen |-> ALPHABET[GroupValue(bytes, i) + 1]]]

\* bit j (1..65) of the padded value a token spells
TokenBit(token, j) ==
    (SymbolValue(token[((j - 1) \div 5) + 1]) \div (2 ^ (4 - ((j - 1) % 5)))) % 2

\* byte n (1..8) of the value a token spells (padded bits 8n-6 .. 8n+1)
TokenByte(token, n) ==
      128 * TokenBit(token, 8 * n - 6)
    +  64 * TokenBit(token, 8 * n - 5)
    +  32 * TokenBit(token, 8 * n - 4)
    +  16 * TokenBit(token, 8 * n - 3)
    +   8 * TokenBit(token, 8 * n - 2)
    +   4 * TokenBit(token, 8 * n - 1)
    +   2 * TokenBit(token, 8 * n)
    +       TokenBit(token, 8 * n + 1)

\* parse_base32(value: &str) -> Result<[u8; 8], _>
parse_base32(token) ==
    IF Len(token) # TokenLen
    THEN [kind |-> "InvalidPayload", cause |-> "InvalidLength"]
    ELSE IF \E i \in 1..TokenLen : ~InAlphabet(token[i])
    THEN [kind |-> "InvalidPayload", cause |-> "InvalidSymbol"]
    ELSE IF SymbolValue(token[1]) >= 16
    THEN [kind |-> "InvalidPayload", cause |-> "Overflow"]
    ELSE [kind |-> "Ok", value |-> [n \in 1..IdLen |-> TokenByte(token, n)]]

\* ------------------------------------------------------------------------
\* Integers <-> bytes (u64/i64::to_be_bytes, ::from_be_bytes)

\* one limb of the radix-2^16 writing of a 64-bit integer
Radix == 2 ^ 16

u64_to_be_bytes(n) ==
    [i \in 1..IdLen |->
        IF i % 2 = 1 THEN n[(i + 1) \div 2] \div 256 ELSE n[i \div 2] % 256]

u64_from_be_bytes(b) == [i \in 1..4 |-> b[2 * i - 1] * 256 + b[2 * i]]

\* two's complement: the bytes of w mod 2^64
i64_to_be_bytes(w) ==
    u64_to_be_bytes([w EXCEPT ![1] = (w[1] + Radix) % Radix])

i64_from_be_bytes(b) ==
    LET u == u64_from_be_bytes(b)
    IN [u EXCEPT ![1] = IF u[1] >= Radix \div 2 THEN u[1] - Radix ELSE u[1]]

\* ------------------------------------------------------------------------
\* Id<T>  (T::PREFIX is passed as P)

None == [kind |-> "None"]

\* Id::new: a store that reverses the payload
new_reversed(value) ==
    [marker |-> "PhantomData", value |-> [i \in 1..Len(value) |-> value[Len(value) + 1 - i]]]

\* Id::new
new(value) == [marker |-> "PhantomData", value |-> value]

\* Id::to_bytes / Id::as_bytes
to_bytes(self) == self.value

\* Id::to_u64 reading the bytes least significant first
to_u64_le(self) ==
    u64_from_be_bytes([i \in 1..IdLen |-> self.value[IdLen + 1 - i]])

\* Id::to_u64
to_u64(self) == u64_from_be_bytes(self.value)

\* Id::to_i64
to_i64(self) == i64_from_be_bytes(self.value)

\* the `?` on parse_base32: a codec error becomes the crate's Error
PayloadResult(r) ==
    IF r.kind = "Ok" THEN [kind |-> "Ok", value |-> new(r.value)] ELSE r

\* Id::parse that decodes the payload before it looks at the prefix
parse_decode_first(P, value) ==
    LET sp == split_once(value)
    IN IF sp.kind = "None" THEN [kind |-> "InvalidData"]
       ELSE LET r == parse_base32(sp.value)
            IN IF r.kind # "Ok" THEN r
               ELSE IF sp.prefix # P
               THEN [kind |-> "PrefixMismatch", expected |-> P, actual |-> sp.prefix]
               ELSE PayloadResult(r)

\* Id::parse that takes a string without '_' as an empty prefix
parse_default_split(P, value) ==
    LET sp == split_once(value)
        prefix == IF sp.kind = "None" THEN <<>> ELSE sp.prefix
        rest == IF sp.kind = "None" THEN value ELSE sp.value
    IN IF prefix # P
       THEN [kind |-> "PrefixMismatch", expected |-> P, actual |-> prefix]
       ELSE PayloadResult(parse_base32(rest))

\* Id::parse that falls back to the default payload when the codec fails
\* (unwrap_or_default in place of `?`)
parse_lenient(P, value) ==
    LET sp == split_once(value)
    IN IF sp.kind = "None" THEN [kind |-> "InvalidData"]
       ELSE IF sp.prefix # P
       THEN [kind |-> "PrefixMismatch", expected |-> P, actual |-> sp.prefix]
       ELSE LET r == parse_base32(sp.value)
            IN IF r.kind = "Ok" THEN PayloadResult(r)
               ELSE [kind |-> "Ok", value |-> new([i \in 1..IdLen |-> 0])]

\* the parts before and after the last '_' (str::rsplit_once)
rsplit_once(value) ==
    IF \E i \in 1..Len(value) : value[i] = SEP
    THEN LET i == CHOOSE k \in 1..Len(value) :
                     /\ value[k] = SEP
                     /\ \A j \in (k + 1)..Len(value) : value[j] # SEP
         IN [kind |-> "Some",
             prefix |-> SubSeq(value, 1, i - 1),
             value |-> SubSeq(value, i + 1, Len(value))]
    ELSE [kind |-> "None"]

\* Id::parse that splits on the last '_'
parse_rsplit(P, value) ==
    LET sp == rsplit_once(value)
    IN IF sp.kind = "None" THEN [kind |-> "InvalidData"]
       ELSE IF sp.prefix # P
       THEN [kind |-> "PrefixMismatch", expected |-> P, actual |-> sp.prefix]
       ELSE PayloadResult(parse_base32(sp.value))

\* Id::parse that wraps a token whose leading symbol overflows
\* (keeps the low 4 bits of the leading symbol)
parse_wrapping(P, value) ==
    LET sp == split_once(value)
    IN IF sp.kind = "None" THEN [kind |-> "InvalidData"]
       ELSE IF sp.prefix # P
       THEN [kind |-> "PrefixMismatch", expected |-> P, actual |-> sp.prefix]
       ELSE LET r == parse_base32(sp.value)
            IN IF r.kind = "InvalidPayload" /\ r.cause = "Overflow"
               THEN PayloadResult(parse_base32(
                        [sp.value EXCEPT ![1] = ALPHABET[(SymbolValue(sp.value[1]) % 16) + 1]]))
               ELSE PayloadResult(r)

\* Id::parse that strips "<PREFIX>_" from the front (str::strip_prefix)
parse_strip_prefix(P, value) ==
    LET head == P \o <<SEP>>
    IN IF Len(value) >= Len(head) /\ SubSeq(value, 1, Len(head)) = head
       THEN PayloadResult(parse_base32(SubSeq(value, Len(head) + 1, Len(value))))
       ELSE LET sp == split_once(value)
            IN IF sp.kind = "None" THEN [kind |-> "InvalidData"]
               ELSE [kind |-> "PrefixMismatch", expected |-> P, actual |-> sp.prefix]

\* Id::parse
parse(P, value) ==
    LET sp == split_once(value)
    IN IF sp.kind = "None" THEN [kind |-> "InvalidData"]
       ELSE IF sp.prefix # P
       THEN [kind |-> "PrefixMismatch", expected |-> P, actual |-> sp.prefix]
       ELSE PayloadResult(parse_base32(sp.value))

\* Id::test
test(P, value) == parse(P, value).kind = "Ok"

\* Display that joins prefix and token without the separator
fmt_no_sep(P, self) ==
    LET r == stringify_base32(self.value)
    IN IF r.kind = "Ok"
       THEN [kind |-> "Str", s |-> P \o r.value]
       ELSE [kind |-> "Panic"]

\* <Id<T> as Display>::fmt; expect() panics when the codec reports failure
fmt(P, self) ==
    LET r == stringify_base32(self.value)
    IN IF r.kind = "Ok"
       THEN [kind |-> "Str", s |-> P \o <<SEP>> \o r.value]
       ELSE [kind |-> "Panic"]

\* From<u64> for Id<T>
from_u64(value) == new(u64_to_be_bytes(value))

\* From<i64> for Id<T>
from_i64(value) == new(i64_to_be_bytes(value))

\* From<IdBytes> for Id<T>
from_bytes(value) == new(value)

\* lexicographic comparison of two byte arrays ([u8; 8] as Ord)
array_cmp(x, y) ==
    IF x = y THEN "Equal"
    ELSE LET i == CHOOSE k \in 1..IdLen :
                      /\ x[k] # y[k]
                      /\ \A j \in 1..(k - 1) : x[j] = y[j]
         IN IF x[i] < y[i] THEN "Less" ELSE "Greater"

\* an ordering that reads the first byte as signed
cmp_signed(a, b) ==
    LET s(x) == IF x >= 128 THEN x - 256 ELSE x
    IN IF a.value[1] # b.value[1]
       THEN (IF s(a.value[1]) < s(b.value[1]) THEN "Less" ELSE "Greater")
       ELSE array_cmp(a.value, b.value)

\* derive(PartialOrd, Ord): the fields in declaration order, marker first
\* (PhantomData always compares Equal), then value
cmp(a, b) == array_cmp(a.value, b.value)

\* derive(PartialEq, Eq): all fields equal
eq(a, b) == a.marker = b.marker /\ a.value = b.value

\* ------------------------------------------------------------------------
\* Inputs

\* the logical types: "user", "order" and one whose PREFIX holds a '_'
Prefixes == {Str_user, Str_order, Str_my_type}

\* left parts of the strings handed to parse
PrefixSegs == {<<>>, Str_user, Str_order, Str_my_type, <<"U", "s", "e", "r">>}

\* the token of the documentation example, "4n3y65asan4bj"
ExampleToken == <<"4", "n", "3", "y", "6", "5", "a", "s", "a", "n", "4", "b", "j">>

LeadSymbols == {"0", "f", "g", "z"}
FillSymbols == {"7", "z"}
ForeignChars == {SEP, "!", "A", "u"}

\* a token of n symbols: lead, then fill
Token(lead, fill, n) == [i \in 1..n |-> IF i = 1 THEN lead ELSE fill]

\* tok with the character at pos replaced by ch
Subst(tok, pos, ch) == [i \in 1..Len(tok) |-> IF i = pos THEN ch ELSE tok[i]]

Tokens ==
    {ExampleToken} \cup
    {Token(lead, fill, n) : lead \in LeadSymbols, fill \in FillSymbols, n \in 0..MaxTokenLen}

PayloadSegs ==
    Tokens \cup
    {Subst(tok, pos, ch) : tok \in {t \in Tokens : Len(t) >= TokenLen - 1},
                           pos \in {1, TokenLen, MaxTokenLen}, ch \in ForeignChars}

\* strings without a separator
BareStrings == {pre \o pay : pre \in {<<>>, Str_user, Str_order}, pay \in {<<>>, ExampleToken}}

InputStrings ==
    BareStrings \cup {pre \o <<SEP>> \o pay : pre \in PrefixSegs, pay \in PayloadSegs}

TopBytes == {0, 127, 128, 255}
LowBytes == {0, 1, 255}

\* payloads handed to new / from
SampleBytes ==
    {<<b1, b2, m, 0, m, 1, m, b8>> : b1 \in TopBytes, b2 \in {0, 255}, m \in {0, 165}, b8 \in LowBytes}

\* right-hand sides of comparisons
CompareBytes == {<<b1, 0, 0, 0, 0, 1, 0, b8>> : b1 \in TopBytes, b8 \in LowBytes}

SampleU64 ==
    {<<t, m, m, l>> : t \in {0, 1, 32767, 32768, 65535}, m \in {0, 258, 65535}, l \in {0, 1, 256, 65535}}

SampleI64 ==
    {<<t, m, m, l>> : t \in {-32768, -1, 0, 1, 32767}, m \in {0, 258, 65535}, l \in {0, 1, 256, 65535}}

\* ------------------------------------------------------------------------
\* State
\*   PREFIX  T::PREFIX of the logical type in use
\*   input   the caller's argument: 8 bytes, a u64, an i64 or a string
\*   id      the identifier in hand, with the call that made it
\*   text    the string in hand: the input, or the output of Display
\*   res     the Result of the last parse, with the string it parsed
\*   last    the value the last conversion, comparison or test returned

VARIABLES PREFIX, input, id, text, res, last

vars == <<PREFIX, input, id, text, res, last>>

Inputs ==
    [kind : {"bytes"}, v : SampleBytes \cup CompareBytes] \cup
    [kind : {"u64"}, v : SampleU64] \cup
    [kind : {"i64"}, v : SampleI64] \cup
    [kind : {"str"}, v : InputStrings]

Init ==
    /\ PREFIX \in Prefixes
    /\ input \in Inputs
    /\ id = None
    /\ text = None
    /\ res = None
    /\ last = None

Made(self, by, arg) == [kind |-> "Id", self |-> self, by |-> by, arg |-> arg]

\* let id = Id::<T>::new(input)
New ==
    /\ input.kind = "bytes"
    /\ id' = Made(new(input.v), "new", input.v)
    /\ text' = None /\ res' = None /\ last' = None
    /\ UNCHANGED <<PREFIX, input>>

\* let id = Id::<T>::from(input: u64)
FromU64 ==
    /\ input.kind = "u64"
    /\ id' = Made(from_u64(input.v), "from_u64", input.v)
    /\ text' = None /\ res' = None /\ last' = None
    /\ UNCHANGED <<PREFIX, input>>

\* let id = Id::<T>::from(input: i64)
FromI64 ==
    /\ input.kind = "i64"
    /\ id' = Made(from_i64(input.v), "from_i64", input.v)
    /\ text' = None /\ res' = None /\ last' = None
    /\ UNCHANGED <<PREFIX, input>>

\* let id = Id::<T>::from(input: IdBytes)
FromBytes ==
    /\ input.kind = "bytes"
    /\ id' = Made(from_bytes(input.v), "from_bytes", input.v)
    /\ text' = None /\ res' = None /\ last' = None
    /\ UNCHANGED <<PREFIX, input>>

\* let text = input
Input ==
    /\ input.kind = "str"
    /\ text' = [kind |-> "Str", s |-> input.v, by |-> "input", of |-> <<>>]
    /\ id' = None /\ res' = None /\ last' = None
    /\ UNCHANGED <<PREFIX, input>>

\* let text = id.to_string()
Display ==
    /\ id.kind = "Id"
    /\ LET r == fmt(PREFIX, id.self)
       IN text' = IF r.kind = "Str"
                  THEN [kind |-> "Str", s |-> r.s, by |-> "display", of |-> id.self.value]
                  ELSE r
    /\ res' = None /\ last' = None
    /\ UNCHANGED <<PREFIX, input, id>>

\* let res = Id::<T>::parse(&text)
Parse ==
    /\ text.kind = "Str"
    /\ res' = [kind |-> "Done", of |-> text.s, r |-> parse(PREFIX, text.s)]
    /\ last' = None
    /\ UNCHANGED <<PREFIX, input, id, text>>

\* let id = res.unwrap()
Unwrap ==
    /\ res.kind = "Done"
    /\ res.r.kind = "Ok"
    /\ id' = Made(res.r.value, "parse", res.of)
    /\ last' = None
    /\ UNCHANGED <<PREFIX, input, text, res>>

\* Id::<T>::test(&text)
Test ==
    /\ text.kind = "Str"
    /\ last' = [kind |-> "test", of |-> text.s, val |-> test(PREFIX, text.s)]
    /\ UNCHANGED <<PREFIX, input, id, text, res>>

\* id.to_bytes()
ToBytes ==
    /\ id.kind = "Id"
    /\ last' = [kind |-> "to_bytes", of |-> id, val |-> to_bytes(id.self)]
    /\ UNCHANGED <<PREFIX, input, id, text, res>>

\* id.to_u64()
ToU64 ==
    /\ id.kind = "Id"
    /\ last' = [kind |-> "to_u64", of |-> id, val |-> to_u64(id.self)]
    /\ UNCHANGED <<PREFIX, input, id, text, res>>

\* id.to_i64()
ToI64 ==
    /\ id.kind = "Id"
    /\ last' = [kind |-> "to_i64", of |-> id, val |-> to_i64(id.self)]
    /\ UNCHANGED <<PREFIX, input, id, text, res>>

\* id.cmp(&other), id == other
Compare(other) ==
    /\ id.kind = "Id"
    /\ last' = [kind |-> "cmp", a |-> id.self, b |-> new(other),
                ord |-> cmp(id.self, new(other)), eq |-> eq(id.self, new(other))]
    /\ UNCHANGED <<PREFIX, input, id, text, res>>

Next ==
    \/ New
    \/ FromU64
    \/ FromI64
    \/ FromBytes
    \/ Input
    \/ Display
    \/ Parse
    \/ Unwrap
    \/ Test
    \/ ToBytes
    \/ ToU64
    \/ ToI64
    \/ \E other \in CompareBytes : Compare(other)

Spec == Init /\ [][Next]_vars

TypeOK ==
    /\ PREFIX \in Prefixes
    /\ id.kind \in {"None", "Id"}
    /\ text.kind \in {"None", "Str"}
    /\ res.kind \in {"None", "Done"}

\* ------------------------------------------------------------------------
\* Vocabulary of the properties

HasSep(s) == \E i \in 1..Len(s) : s[i] = SEP

SepCount(s) == Cardinality({i \in 1..Len(s) : s[i] = SEP})

\* position of the first '_' of a string that has one
FirstSep(s) == CHOOSE i \in 1..Len(s) : s[i] = SEP /\ \A j \in 1..Len(s) : s[j] = SEP => i <= j

LeftSeg(s) == SubSeq(s, 1, FirstSep(s) - 1)

RightSeg(s) == SubSeq(s, FirstSep(s) + 1, Len(s))

\* 13 symbols of the alphabet
WellFormedToken(p) == Len(p) = TokenLen /\ \A i \in 1..Len(p) : InAlphabet(p[i])

\* a well-formed token whose leading symbol fits the 4 bits left for it
ValidToken(p) == WellFormedToken(p) /\ SymbolValue(p[1]) < 16

\* PREFIX obeys the data model: not empty, no '_'
GoodPrefix == PREFIX # <<>> /\ ~HasSep(PREFIX)

\* s is "<PREFIX>_<valid token>" of the textual format
Canonical(s) ==
    /\ GoodPrefix
    /\ HasSep(s)
    /\ LeftSeg(s) = PREFIX
    /\ ValidToken(RightSeg(s))

\* res holds the outcome of parsing some string
Parsed == res.kind = "Done"

\* res holds the outcome of parsing "<PREFIX>_<payload>"
ParsedOwnPrefix == Parsed /\ HasSep(res.of) /\ LeftSeg(res.of) = PREFIX

\* numeric order of two u64 written in limbs
U64Less(x, y) ==
    \E k \in 1..4 : x[k] < y[k] /\ \A j \in 1..(k - 1) : x[j] = y[j]

\* numeric order of two i64 written in limbs (the first limb carries the sign)
I64Less(x, y) ==
    \E k \in 1..4 : x[k] < y[k] /\ \A j \in 1..(k - 1) : x[j] = y[j]

\* x is lexicographically less than y
LexLess(x, y) ==
    \E k \in 1..IdLen : x[k] < y[k] /\ \A j \in 1..(k - 1) : x[j] = y[j]

\* w as u64: w mod 2^64
AsU64(w) == [w EXCEPT ![1] = (w[1] + Radix) % Radix]

\* ------------------------------------------------------------------------
\* Properties

\* C1 Round-trip: when the Display output of Id::new(v) is parsed for the
\* same logical type (PREFIX non-empty, without '_'), the result is Ok of an
\* identifier whose payload is v.
C1_RoundTrip ==
    (/\ GoodPrefix
     /\ id.kind = "Id" /\ id.by = "new"
     /\ text.kind = "Str" /\ text.by = "display"
     /\ Parsed /\ res.of = text.s)
    => (res.r.kind = "Ok" /\ to_bytes(res.r.value) = id.arg)

C1_Witness ==
    /\ PREFIX = Str_user
    /\ id.kind = "Id" /\ id.by = "new" /\ id.arg = <<255, 255, 165, 0, 165, 1, 165, 1>>
    /\ text.kind = "Str" /\ text.by = "display"
    /\ Parsed /\ res.of = text.s
    /\ res.r.kind = "Ok"

\* C2 Prefix rejection: a string with a '_' whose part before the first '_'
\* differs from PREFIX parses to PrefixMismatch{expected: PREFIX, actual: that
\* part}, whatever the payload part is.
C2_PrefixRejection ==
    (Parsed /\ HasSep(res.of) /\ LeftSeg(res.of) # PREFIX)
    => res.r = [kind |-> "PrefixMismatch", expected |-> PREFIX, actual |-> LeftSeg(res.of)]

C2_Witness ==
    /\ PREFIX = Str_user
    /\ Parsed /\ res.of = Str_order \o <<SEP>> \o ExampleToken
    /\ res.r = [kind |-> "PrefixMismatch", expected |-> Str_user, actual |-> Str_order]

\* C3 Missing separator: a string without '_' (the empty string and PREFIX
\* itself included) parses to InvalidFormat (Error::InvalidData in the code).
C3_MissingSeparator ==
    (Parsed /\ ~HasSep(res.of)) => res.r = [kind |-> "InvalidData"]

C3_Witness ==
    /\ Parsed /\ res.of = PREFIX
    /\ res.r.kind = "InvalidData"

\* C4 Payload grammar: "<PREFIX>_<p>" where p is not 13 symbols of the
\* alphabet parses to InvalidPayload (an error value, not a panic).
C4_PayloadGrammar ==
    (ParsedOwnPrefix /\ ~WellFormedToken(RightSeg(res.of)))
    => res.r.kind = "InvalidPayload"

C4_Witness ==
    /\ ParsedOwnPrefix
    /\ Len(RightSeg(res.of)) = TokenLen
    /\ RightSeg(res.of)[TokenLen] = "A"
    /\ res.r.kind = "InvalidPayload"

\* C5 Overflow rejection: "<PREFIX>_<p>" with p 13 symbols of the alphabet is
\* rejected as InvalidPayload/overflow when the leading symbol's value is 16 or
\* more and accepted otherwise; an accepted token is the token of the payload
\* it decodes to, so each payload has one accepted token.
C5_OverflowRejection ==
    (ParsedOwnPrefix /\ WellFormedToken(RightSeg(res.of)))
    => /\ SymbolValue(RightSeg(res.of)[1]) >= 16
            => res.r = [kind |-> "InvalidPayload", cause |-> "Overflow"]
       /\ SymbolValue(RightSeg(res.of)[1]) < 16
            => /\ res.r.kind = "Ok"
               /\ stringify_base32(to_bytes(res.r.value)).value = RightSeg(res.of)

C5_Witness ==
    /\ ParsedOwnPrefix
    /\ WellFormedToken(RightSeg(res.of))
    /\ RightSeg(res.of)[1] = "g"
    /\ res.r.kind = "InvalidPayload"

\* C6 Canonical reformat: a canonical string ("<PREFIX>_<valid token>", PREFIX
\* without '_' as the textual format requires) parses to Ok, and the Display
\* output of the parsed identifier is that string, character for character.
C6_CanonicalReformat ==
    /\ (Parsed /\ Canonical(res.of)) => res.r.kind = "Ok"
    /\ (/\ id.kind = "Id" /\ id.by = "parse" /\ Canonical(id.arg)
        /\ text.kind = "Str" /\ text.by = "display" /\ text.of = to_bytes(id.self))
       => text.s = id.arg

C6_Witness ==
    /\ PREFIX = Str_user
    /\ id.kind = "Id" /\ id.by = "parse" /\ id.arg = Str_user \o <<SEP>> \o ExampleToken
    /\ text.kind = "Str" /\ text.by = "display" /\ text.of = to_bytes(id.self)
    /\ text.s = id.arg

\* C7 Integer equivalence: from(v: u64).to_u64() = v, from(w: i64).to_i64() = w,
\* from(w: i64).to_u64() = w mod 2^64, and from(w) holds the bytes of
\* from(w mod 2^64 as u64).
C7_IntegerEquivalence ==
    /\ (last.kind = "to_u64" /\ last.of.by = "from_u64") => last.val = last.of.arg
    /\ (last.kind = "to_i64" /\ last.of.by = "from_i64") => last.val = last.of.arg
    /\ (last.kind = "to_u64" /\ last.of.by = "from_i64") => last.val = AsU64(last.of.arg)
    /\ (last.kind = "to_bytes" /\ last.of.by = "from_i64")
       => last.val = to_bytes(from_u64(AsU64(last.of.arg)))

C7_Witness ==
    /\ last.kind = "to_u64" /\ last.of.by = "from_i64"
    /\ last.of.arg = <<-1, 258, 258, 256>>
    /\ last.val = <<65535, 258, 258, 256>>

\* C8 Ordering: a < b iff a's payload is lexicographically less than b's, iff
\* a.to_u64() < b.to_u64(); a == b iff the payloads are equal; the order
\* differs from the order of to_i64() exactly when the top bits differ.
C8_Ordering ==
    last.kind = "cmp"
    => /\ (last.ord = "Less") <=> LexLess(to_bytes(last.a), to_bytes(last.b))
       /\ (last.ord = "Less") <=> U64Less(to_u64(last.a), to_u64(last.b))
       /\ (last.ord = "Equal") <=> (to_bytes(last.a) = to_bytes(last.b))
       /\ last.eq <=> (to_bytes(last.a) = to_bytes(last.b))
       /\ ((last.ord = "Less") # I64Less(to_i64(last.a), to_i64(last.b)))
          <=> ((to_bytes(last.a)[1] >= 128) # (to_bytes(last.b)[1] >= 128))

C8_Witness ==
    /\ last.kind = "cmp"
    /\ to_bytes(last.a)[1] = 127 /\ to_bytes(last.b)[1] = 128
    /\ last.ord = "Less"
    /\ ~I64Less(to_i64(last.a), to_i64(last.b))

\* C9 Only the first '_' splits: a string with two or more '_' whose part
\* before the first '_' is PREFIX parses to what the codec says of everything
\* after the first '_', which is InvalidPayload.
C9_FirstSeparatorOnly ==
    (ParsedOwnPrefix /\ SepCount(res.of) >= 2)
    => (res.r.kind = "InvalidPayload" /\ res.r = parse_base32(RightSeg(res.of)))

C9_Witness ==
    /\ ParsedOwnPrefix
    /\ Len(RightSeg(res.of)) = TokenLen + 1
    /\ RightSeg(res.of)[TokenLen + 1] = SEP
    /\ ValidToken(SubSeq(RightSeg(res.of), 1, TokenLen))
    /\ res.r.kind = "InvalidPayload"

\* C10 PREFIX with a '_': every parse is an error, test is false, and parsing
\* the Display output of an identifier fails with PrefixMismatch.
C10_SeparatorInPrefix ==
    HasSep(PREFIX)
    => /\ Parsed => res.r.kind \in {"InvalidData", "PrefixMismatch"}
       /\ last.kind = "test" => last.val = FALSE
       /\ (Parsed /\ text.kind = "Str" /\ text.by = "display" /\ res.of = text.s)
          => res.r = [kind |-> "PrefixMismatch", expected |-> PREFIX,
                      actual |-> LeftSeg(PREFIX)]

C10_Witness ==
    /\ PREFIX = Str_my_type
    /\ text.kind = "Str" /\ text.by = "display"
    /\ Parsed /\ res.of = text.s
    /\ res.r.kind = "PrefixMismatch" /\ res.r.actual = Str_my

====
